---------------------------- MODULE Spec2Model ----------------------------
(***************************************************************************)
(* Download/persistence pipeline of the Scenic photo collectors            *)
(* (scripts/flickr_enhanced_scraper.py, flickr_api_scraper.py,             *)
(* flickr_html_scraper.py, flickr_scraper.py, geograph_scraper.py).        *)
(*                                                                         *)
(* The state is the output directory (photos/, the ledger file, the        *)
(* failure file), the scraper object's fields and the position of the      *)
(* single sequential flow inside scrape().  The network and the storage    *)
(* are the environment: a request's answer is drawn when the request is    *)
(* first made in a run, a storage write may raise, and a top-level         *)
(* interrupt may stop a run.                                               *)
(***************************************************************************)
EXTENDS Integers, Sequences, FiniteSets, TLC

\* ----------------------------------------------------------------- bounds
\* Number of runs (constructions of a scraper on the same output directory).
MaxRuns == 2
\* Largest image body, in bytes; a failed image request is size 0.
MaxSize == 1
\* Longest listing document, in pattern matches.
MaxDoc == 2
\* Longest listing document handed to a candidate lister examined on its own.
MaxListing == 3
\* Longest license text, in pieces (labels and other words).
MaxPieces == 2
\* Longest image URL, in pieces (path characters, size letters, extensions).
MaxUrlPieces == 4
\* Longest text of a title element or og:title content, in characters.
MaxTitle == 3
\* Listing pages counted in a GeographScraper run, whose loop has no limit.
MaxPages == 3
\* Number of runs of a paged scraper on one output directory.
MaxPagedRuns == 1
\* Failed image requests and writes a GeographScraper run meets.
MaxFailures == 3

\* ------------------------------------------------------------ input sets
PhotoIds == {1, 2}
\* The ids of FlickrAPIScraper's three built-in sample photos.
SampleIds == {1, 2, 3}
AllIds == PhotoIds \cup SampleIds
Scrapers == {"enhanced", "api", "html"}
\* Owner handles as character sequences; "." is outside [a-zA-Z0-9_-].
Users == {<<"a">>, <<".">>}
LinkKinds == {"download", "display"}

\* The characters re.sub(r'[^a-zA-Z0-9_-]', '_', username) keeps.
SafeChars ==
    {"a","b","c","d","e","f","g","h","i","j","k","l","m","n","o","p","q","r",
     "s","t","u","v","w","x","y","z","A","B","C","D","E","F","G","H","I","J",
     "K","L","M","N","O","P","Q","R","S","T","U","V","W","X","Y","Z","0","1",
     "2","3","4","5","6","7","8","9","_","-"}

VARIABLES
    scraper,            \* which collector class is constructed
    max_photos,         \* self.max_photos, where scrape()'s loop reads it
    run,                \* number of runs started so far
    pc,                 \* position of the flow inside scrape()
    photos,             \* the candidates of the current run
    idx,                \* 1-based index of the current candidate
    net,                \* the network's answers given in the current run, by id
                        \* (paged scrapers: for the candidate in hand)
    files,              \* photos/ : filename -> size in bytes
    metaFile,           \* metadata.json / attribution.json on disk
    failedFile,         \* failed_downloads.json on disk
    metadata,           \* self.metadata / self.attribution_data
    failed_downloads,   \* self.failed_downloads
    photos_downloaded,  \* scrape()'s counter
    photos_skipped,     \* scrape()'s counter
    reqs,               \* the requests issued so far in the current run
                        \* (paged scrapers: the requests and pauses since
                        \* the last page turn)
    outcome,            \* the branch the current candidate took
    startFailed,        \* failed_downloads.json as it was when the run started
    startFile,          \* the ledger file as it was when the run started
    durable,            \* the ledger as last loaded or fully written
    faulted,            \* a storage write raised or an interrupt hit this run
    replay,             \* this run repeats the previous complete, fault-free run
    call,               \* the last call of a function examined on its own:
                        \* its name, its argument and its result
    page,               \* scrape()'s listing page number (paged scrapers)
    stats,              \* GeographScraper's self.stats
    carried,            \* per id, how often the current run has handed it to
                        \* the download pipeline (counted up to 2)
    fetches             \* GeographScraper: the calls of
                        \* download_and_classify_photo in the current run that
                        \* reached the image request

vars == <<scraper, max_photos, run, pc, photos, idx, net, files, metaFile, failedFile,
          metadata, failed_downloads, photos_downloaded, photos_skipped,
          reqs, outcome, startFailed, startFile, durable, faulted, replay, call,
          page, stats, carried, fetches>>

\* ---------------------------------------------------------------- helpers
Range(s) == {s[i] : i \in DOMAIN s}

IsPrefix(s, t) == Len(s) <= Len(t) /\ \A i \in 1..Len(s) : s[i] = t[i]

Ids(recs) == {recs[i].photo_id : i \in DOMAIN recs}

\* Documents: the (username, photo_id) matches of the listing pattern, in
\* document order, duplicates included.
Matches == Users \X PhotoIds

Docs == UNION {[1..n -> Matches] : n \in 0..MaxDoc}

\* A lister that keeps every match of the pattern.
DedupNone(ms, seen) == [i \in DOMAIN ms |-> [id |-> ms[i][2], username |-> ms[i][1]]]

\* extract_photos_from_html: first occurrence of each photo_id, in order.
RECURSIVE Dedup(_, _)
Dedup(ms, seen) ==
    IF ms = <<>> THEN <<>>
    ELSE IF Head(ms)[2] \in seen THEN Dedup(Tail(ms), seen)
    ELSE <<[id |-> Head(ms)[2], username |-> Head(ms)[1]]>>
             \o Dedup(Tail(ms), seen \cup {Head(ms)[2]})

\* ps[:n]
Prefix(ps, n) == IF n >= Len(ps) THEN ps ELSE SubSeq(ps, 1, n)

\* self.stats as GeographScraper.__init__ sets it.
NoStats == [total_downloaded |-> 0, with_gps |-> 0, without_gps |-> 0, failed |-> 0]

\* EnhancedFlickrScraper: photos[:max_photos] if max_photos is truthy, all
\* photos otherwise (None, written 0 here).
extract_photos_from_html(doc, n) ==
    IF n = 0 THEN Dedup(doc, {}) ELSE Prefix(Dedup(doc, {}), n)

\* re.sub(r'[^a-zA-Z0-9_-]', '_', username)
clean_username(u) == [i \in DOMAIN u |-> IF u[i] \in SafeChars THEN u[i] ELSE "_"]

\* f"flickr_{photo_id}_{clean_username}.jpg"
Filename(photo_id, username) == <<"flickr", photo_id, clean_username(username), "jpg">>

\* os.path.exists / os.path.getsize on photos/
exists(fs, name) == name \in DOMAIN fs
getsize(fs, name) == fs[name]
WriteFile(fs, name, size) ==
    [n \in DOMAIN fs \cup {name} |-> IF n = name THEN size ELSE fs[n]]

\* The ledger file: absent, unparsable, or a JSON array of records.
AbsentFile == [st |-> "absent", recs |-> <<>>]
CorruptFile == [st |-> "corrupt", recs |-> <<>>]
JsonFile(recs) == [st |-> "ok", recs |-> recs]

\* __init__: json.load of an existing file, [] when absent or unparsable.
Load(f) == IF f.st = "ok" THEN f.recs ELSE <<>>

\* final_url = download_url or image_url
FinalUrl(links) ==
    IF "download" \in links THEN "download"
    ELSE IF "display" \in links THEN "display"
    ELSE "none"

\* What the network has answered for one photo in the current run:
\*   meta   the metadata page: "ok" or "fail" (timeout, HTTP error status)
\*   sizes  the sizes page: "ok" or "fail"
\*   links  the links the sizes page carries (an explicit download link,
\*          the displayed image)
\*   img    the image request: the body's size in bytes, 0 when it fails
\*   orig   FlickrHTMLScraper's "Original" size page: "img" (it shows the
\*          image), "none" (it does not) or "fail"
\*   dl,im  FlickrAPIScraper's requests of the download URL and of the
\*          image URL: "ok", "login" (the final URL is the login page, with
\*          a success status) or "fail"
\* "unset" and -1 stand for a request not made yet.
Unasked ==
    [meta |-> "unset", sizes |-> "unset", links |-> {}, img |-> -1,
     orig |-> "unset", dl |-> "unset", im |-> "unset"]

LinkSets == {{}, {"display"}, {"download", "display"}}

\* The answers a request may get: any, the first time; the same again after.
PageAnswers(given) == IF given = "unset" THEN {"ok", "fail"} ELSE {given}
ImageAnswers(given) == IF given = -1 THEN 0..MaxSize ELSE {given}

cur == photos[idx]
curFile == Filename(cur.id, cur.username)
InRun == pc \notin {"idle", "done", "aborted"}

\* -------------------------------------------------------------------- Init
Init ==
    /\ scraper \in Scrapers
    /\ max_photos = 0
    /\ run = 0
    /\ pc = "idle"
    /\ photos = <<>>
    /\ idx = 0
    /\ net = [i \in AllIds |-> Unasked]
    /\ files = <<>>
    /\ metaFile = AbsentFile
    /\ failedFile = [st |-> "absent", ids |-> <<>>]
    /\ metadata = <<>>
    /\ failed_downloads = <<>>
    /\ photos_downloaded = 0
    /\ photos_skipped = 0
    /\ reqs = <<>>
    /\ outcome = "none"
    /\ startFailed = [st |-> "absent", ids |-> <<>>]
    /\ startFile = AbsentFile
    /\ durable = <<>>
    /\ faulted = FALSE
    /\ replay = FALSE
    /\ call = [fn |-> "none", arg |-> <<>>, out |-> <<>>]
    /\ page = 0
    /\ stats = NoStats
    /\ carried = [i \in AllIds |-> 0]
    /\ fetches = 0


\* ------------------------------------------------- EnhancedFlickrScraper
\* A record whose file_size is not read back from the written file.
FreshRecordUnsized(photo, fs, url, at) ==
    [photo_id |-> photo.id,
     filename |-> Filename(photo.id, photo.username),
     file_size |-> 0,
     download_url |-> url,
     downloaded_at |-> at]

\* The record download_photo_with_metadata appends after a fresh download:
\* filename, downloaded_at (the run stands for the clock), file_size as
\* os.path.getsize reports it, download_url.
FreshRecord(photo, fs, url, at) ==
    [photo_id |-> photo.id,
     filename |-> Filename(photo.id, photo.username),
     file_size |-> getsize(fs, Filename(photo.id, photo.username)),
     download_url |-> url,
     downloaded_at |-> at]

\* The record appended when the file is already on disk but the ledger has
\* no record of the id: no download_url, no attribution strings.
BackfillRecord(photo, fs, at) ==
    [photo_id |-> photo.id,
     filename |-> Filename(photo.id, photo.username),
     file_size |-> getsize(fs, Filename(photo.id, photo.username)),
     download_url |-> "absent",
     downloaded_at |-> at]

\* A skip branch that never finds the id in the ledger.
existing_ids_none(recs) == {}

\* existing_ids = [m.get('photo_id') for m in self.metadata]
existing_ids(recs) == Ids(recs)

\* A request of the current candidate joins the run's request log.
Logged(kind) == [id |-> cur.id, kind |-> kind]
Request(kind) == reqs' = Append(reqs, Logged(kind))

\* A scrape() whose loop ends at the first failed candidate.
EndItemOrAbort(ok) ==
    /\ photos_downloaded' = IF ok THEN photos_downloaded + 1 ELSE photos_downloaded
    /\ photos_skipped' = IF ok THEN photos_skipped ELSE photos_skipped + 1
    /\ pc' = IF ok THEN "sleep" ELSE "finish"
    /\ idx' = idx

\* scrape(): the bookkeeping after one candidate; the flow then reaches the
\* pause that ends the loop body.
EndItem(ok) ==
    /\ photos_downloaded' = IF ok THEN photos_downloaded + 1 ELSE photos_downloaded
    /\ photos_skipped' = IF ok THEN photos_skipped ELSE photos_skipped + 1
    /\ pc' = "sleep"
    /\ idx' = idx

\* An item failure that lists the id twice.
FailItemTwice ==
    /\ failed_downloads' = failed_downloads \o <<cur.id, cur.id>>
    /\ outcome' = "failed"
    /\ EndItem(FALSE)

\* An item failure that leaves no trace in failed_downloads.
FailItemUnlisted ==
    /\ UNCHANGED failed_downloads
    /\ outcome' = "failed"
    /\ EndItem(FALSE)

\* The item fails: its id joins failed_downloads and the loop goes on.
FailItem ==
    /\ failed_downloads' = Append(failed_downloads, cur.id)
    /\ outcome' = "failed"
    /\ EndItem(FALSE)

\* What __init__ and the head of scrape() set, for a listing ps: the ledger
\* the object starts with and the position of the loop's first step.
Construct(ps, ledger, first) ==
    /\ run' = run + 1
    /\ metadata' = ledger
    /\ failed_downloads' = <<>>
    /\ photos_downloaded' = 0
    /\ photos_skipped' = 0
    /\ reqs' = <<>>
    /\ outcome' = "none"
    /\ startFile' = metaFile
    /\ startFailed' = failedFile
    /\ durable' = Load(metaFile)
    /\ faulted' = FALSE
    /\ IF ps = <<>> THEN pc' = "done" /\ idx' = 0 ELSE pc' = first /\ idx' = 1
    /\ UNCHANGED <<page, stats, carried, call, fetches, scraper, files, metaFile, failedFile>>

\* A run on a listing document and a network of its own.
StartRun ==
    /\ scraper = "enhanced"
    /\ ~InRun
    /\ run < MaxRuns
    /\ \E doc \in Docs, n \in 0..MaxDoc :
          /\ photos' = extract_photos_from_html(doc, n)
          /\ Construct(photos', Load(metaFile), "meta")
    /\ max_photos' = 0
    /\ net' = [i \in AllIds |-> Unasked]
    /\ replay' = FALSE

\* A run on the listing of the previous run, with the network answering as
\* it did then; the previous run completed and no storage write raised.
\* One such run may follow the last run on a listing of its own.
RepeatRun ==
    /\ scraper = "enhanced"
    /\ pc = "done"
    /\ ~faulted
    /\ run <= MaxRuns
    /\ Construct(photos, Load(metaFile), "meta")
    /\ replay' = TRUE
    /\ UNCHANGED <<photos, net, max_photos>>

\* get_photo_metadata and the branch on its result in scrape().
GetMetadata ==
    /\ scraper = "enhanced"
    /\ pc = "meta"
    /\ Request("meta")
    /\ \E ans \in PageAnswers(net[cur.id].meta) :
          /\ net' = [net EXCEPT ![cur.id].meta = ans]
          /\ IF ans = "ok"
                THEN /\ pc' = "sizes"
                     /\ outcome' = "pending"
                     /\ UNCHANGED <<idx, failed_downloads, photos_downloaded,
                                    photos_skipped>>
                ELSE FailItem
    /\ UNCHANGED <<page, stats, carried, call, fetches, scraper, max_photos, run, photos, files, metaFile, failedFile,
                   metadata, startFailed, startFile, durable, faulted, replay>>

\* download_photo_with_metadata when the sizes page cannot be fetched.
SizesPageFails ==
    /\ scraper = "enhanced"
    /\ pc = "sizes"
    /\ "fail" \in PageAnswers(net[cur.id].sizes)
    /\ net' = [net EXCEPT ![cur.id].sizes = "fail"]
    /\ Request("sizes")
    /\ FailItem
    /\ UNCHANGED <<page, stats, carried, call, fetches, scraper, max_photos, run, photos, files, metaFile, failedFile,
                   metadata, startFailed, startFile, durable, faulted, replay>>

\* download_photo_with_metadata up to the existence test: the sizes page,
\* the choice of final_url, the filename, and the skip branch's in-memory
\* append.
LocateAsset ==
    /\ scraper = "enhanced"
    /\ pc = "sizes"
    /\ "ok" \in PageAnswers(net[cur.id].sizes)
    /\ Request("sizes")
    /\ \E links \in (IF net[cur.id].sizes = "unset" THEN LinkSets
                                                     ELSE {net[cur.id].links}) :
          /\ net' = [net EXCEPT ![cur.id].sizes = "ok", ![cur.id].links = links]
          /\ IF FinalUrl(links) = "none"
                THEN FailItem /\ UNCHANGED metadata
                ELSE IF exists(files, curFile)
                        THEN IF cur.id \notin existing_ids(metadata)
                                THEN /\ metadata' = Append(metadata,
                                                       BackfillRecord(cur, files, run))
                                     /\ outcome' = "backfill"
                                     /\ pc' = "dump"
                                     /\ UNCHANGED <<idx, failed_downloads,
                                                    photos_downloaded, photos_skipped>>
                                ELSE /\ outcome' = "skipped"
                                     /\ EndItem(TRUE)
                                     /\ UNCHANGED <<metadata, failed_downloads>>
                        ELSE /\ pc' = "image"
                             /\ outcome' = "pending"
                             /\ UNCHANGED <<idx, metadata, failed_downloads,
                                            photos_downloaded, photos_skipped>>
    /\ UNCHANGED <<page, stats, carried, call, fetches, scraper, max_photos, run, photos, files, metaFile, failedFile,
                   startFailed, startFile, durable, faulted, replay>>

\* img_response = self.session.get(final_url); raise_for_status()
FetchImage ==
    /\ scraper = "enhanced"
    /\ pc = "image"
    /\ Request("image")
    /\ \E size \in ImageAnswers(net[cur.id].img) :
          /\ net' = [net EXCEPT ![cur.id].img = size]
          /\ IF size = 0
                THEN FailItem
                ELSE /\ pc' = "write"
                     /\ UNCHANGED <<idx, failed_downloads, photos_downloaded,
                                    photos_skipped, outcome>>
    /\ UNCHANGED <<page, stats, carried, call, fetches, scraper, max_photos, run, photos, files, metaFile, failedFile,
                   metadata, startFailed, startFile, durable, faulted, replay>>

\* with open(filepath, 'wb') as f: f.write(img_response.content)
WriteImage ==
    /\ scraper = "enhanced"
    /\ pc = "write"
    /\ files' = WriteFile(files, curFile, net[cur.id].img)
    /\ pc' = "record"
    /\ UNCHANGED <<page, stats, carried, call, fetches, scraper, max_photos, run, photos, idx, net, metaFile, failedFile, metadata,
                   failed_downloads, photos_downloaded, photos_skipped, reqs,
                   outcome, startFailed, startFile, durable, faulted, replay>>

\* The write raises OSError after the file was created: part of the bytes
\* stay on disk and the except clause records the item as failed.
WriteImageFails ==
    /\ scraper = "enhanced"
    /\ pc = "write"
    /\ \E k \in 0..(net[cur.id].img - 1) : files' = WriteFile(files, curFile, k)
    /\ faulted' = TRUE
    /\ FailItem
    /\ UNCHANGED <<page, stats, carried, call, fetches, scraper, max_photos, run, photos, net, metaFile, failedFile, metadata,
                   reqs, startFailed, startFile, durable, replay>>

\* metadata[...] = ...; self.metadata.append(metadata)
AppendRecord ==
    /\ scraper = "enhanced"
    /\ pc = "record"
    /\ metadata' = Append(metadata,
                          FreshRecord(cur, files, FinalUrl(net[cur.id].links), run))
    /\ outcome' = "fresh"
    /\ pc' = "dump"
    /\ UNCHANGED <<page, stats, carried, call, fetches, scraper, max_photos, run, photos, idx, net, files, metaFile, failedFile,
                   failed_downloads, photos_downloaded, photos_skipped, reqs,
                   startFailed, startFile, durable, faulted, replay>>

\* with open(self.metadata_file, 'w') as f: json.dump(self.metadata, f)
\* then return True.
DumpLedger ==
    /\ scraper = "enhanced"
    /\ pc = "dump"
    /\ metaFile' = JsonFile(metadata)
    /\ durable' = metadata
    /\ EndItem(TRUE)
    /\ UNCHANGED <<page, stats, carried, call, fetches, scraper, max_photos, run, photos, net, files, failedFile, metadata,
                   failed_downloads, reqs, outcome, startFailed, startFile, faulted,
                   replay>>

\* The ledger write raises OSError (disk full, quota): open(..., 'w') has
\* truncated the file and the dump does not complete.  The except clause
\* records the item as failed and the loop goes on.
DumpLedgerFails ==
    /\ scraper = "enhanced"
    /\ pc = "dump"
    /\ metaFile' = CorruptFile
    /\ faulted' = TRUE
    /\ FailItem
    /\ UNCHANGED <<page, stats, carried, call, fetches, scraper, max_photos, run, photos, net, files, failedFile, metadata,
                   reqs, startFailed, startFile, durable, replay>>

\* KeyboardInterrupt: not an Exception, so no except clause catches it and
\* the process ends; what the object held is gone.  A write in progress
\* (the image at "write", the ledger at "dump") leaves a partial file.
Interrupt ==
    /\ scraper = "enhanced"
    /\ InRun
    /\ pc' = "aborted"
    /\ faulted' = TRUE
    /\ metaFile' = IF pc = "dump" THEN CorruptFile ELSE metaFile
    /\ IF pc = "write"
          THEN \E k \in 0..(net[cur.id].img - 1) : files' = WriteFile(files, curFile, k)
          ELSE files' = files
    /\ metadata' = <<>>
    /\ failed_downloads' = <<>>
    /\ photos_downloaded' = 0
    /\ photos_skipped' = 0
    /\ reqs' = <<>>
    /\ outcome' = "none"
    /\ idx' = 0
    /\ photos' = <<>>
    /\ net' = [i \in AllIds |-> Unasked]
    /\ UNCHANGED <<page, stats, carried, call, fetches, scraper, max_photos, run, failedFile, startFailed, startFile, durable, replay>>

\* The pause at the end of the loop body (time.sleep), then the next
\* candidate or the end of the loop.
NextItem ==
    /\ pc \in {"sleep", "next"}
    /\ IF idx = Len(photos)
          THEN pc' = "finish" /\ idx' = idx
          ELSE pc' = (IF scraper = "enhanced" THEN "meta" ELSE "item") /\ idx' = idx + 1
    /\ UNCHANGED <<page, stats, carried, call, fetches, scraper, max_photos, run, photos, net, files, metaFile, failedFile, metadata,
                   failed_downloads, photos_downloaded, photos_skipped, reqs,
                   outcome, startFailed, startFile, durable, faulted, replay>>

\* A scrape() that writes failed_downloads.json whatever the list holds.
FinishAlwaysWrites ==
    /\ scraper = "enhanced"
    /\ pc = "finish"
    /\ failedFile' = [st |-> "ok", ids |-> failed_downloads]
    /\ pc' = "done"
    /\ UNCHANGED <<page, stats, carried, call, fetches, scraper, max_photos, run, photos, idx, net, files, metaFile, metadata,
                   failed_downloads, photos_downloaded, photos_skipped, reqs,
                   outcome, startFailed, startFile, durable, faulted, replay>>

\* scrape() after the loop: failed_downloads.json is written when the list
\* is not empty.
Finish ==
    /\ scraper = "enhanced"
    /\ pc = "finish"
    /\ failedFile' = IF failed_downloads # <<>>
                        THEN [st |-> "ok", ids |-> failed_downloads]
                        ELSE failedFile
    /\ pc' = "done"
    /\ UNCHANGED <<page, stats, carried, call, fetches, scraper, max_photos, run, photos, idx, net, files, metaFile, metadata,
                   failed_downloads, photos_downloaded, photos_skipped, reqs,
                   outcome, startFailed, startFile, durable, faulted, replay>>

\* --------------------------------- FlickrAPIScraper, FlickrHTMLScraper
\* self.sample_photos
sample_photos ==
    <<[id |-> 1, username |-> <<"a">>],
      [id |-> 2, username |-> <<"a">>],
      [id |-> 3, username |-> <<"a">>]>>

\* The record download_photo / download_photo_from_sizes appends.
AttributionRecord(photo, name, at) ==
    [photo_id |-> photo.id, filename |-> name, downloaded_at |-> at]

\* str.replace(old, new) on a character sequence.
Replace(u, old, new) == [i \in DOMAIN u |-> IF u[i] = old THEN new ELSE u[i]]

\* FlickrHTMLScraper: f"flickr_{photo_id}_{username.replace('/', '_')}.jpg"
HtmlFilename(photo_id, username) ==
    <<"flickr", photo_id, Replace(username, "/", "_"), "jpg">>

\* The links FlickrHTMLScraper may find on a sizes page: those of LinkSets,
\* or only a link to the "Original" size page.
HtmlLinkSets == LinkSets \cup {{"original"}}

\* The links get_photo_info_direct may derive from the photo page: a
\* download URL when the page shows a secret, an image URL when one of the
\* image patterns matches.
ApiLinkSets == SUBSET LinkKinds

UrlAnswers(given) == IF given = "unset" THEN {"ok", "login", "fail"} ELSE {given}

\* The end of the loop body: time.sleep(2), which FlickrAPIScraper skips
\* when photo_info is None.
Pause(slept) == pc' = (IF slept THEN "sleep" ELSE "next") /\ idx' = idx

\* A download_photo_from_sizes that requests the image before it tests
\* whether the file exists.
HtmlAskedFetchFirst(viaOrig, final, fetch) ==
    <<[id |-> photos[idx].id, kind |-> "sizes"]>>
        \o (IF viaOrig THEN <<[id |-> photos[idx].id, kind |-> "original"]>> ELSE <<>>)
        \o (IF final # "none" THEN <<[id |-> photos[idx].id, kind |-> final]>> ELSE <<>>)

\* The requests download_photo_from_sizes issues: the sizes page, the
\* "Original" size page when method 3 runs, the image when it is fetched.
HtmlAsked(viaOrig, final, fetch) ==
    <<Logged("sizes")>>
        \o (IF viaOrig THEN <<Logged("original")>> ELSE <<>>)
        \o (IF fetch THEN <<Logged(final)>> ELSE <<>>)

\* A download_photo that requests the image URL after any first answer.
login_redirect_any(answer, links) == TRUE

\* if 'login' in response.url and photo_info.get('image_url')
login_redirect(answer, links) == answer = "login" /\ "display" \in links

\* A loop that never tests the count against max_photos.
CapNever == FALSE

\* if photos_downloaded >= self.max_photos: break
CapReached == photos_downloaded >= max_photos

\* download returned True / False (or photo_info was None).
Counted(ok) == photos_downloaded' = IF ok THEN photos_downloaded + 1 ELSE photos_downloaded

\* FlickrAPIScraper.__init__ and the head of scrape(): the search request,
\* de-duplication and truncation of its matches, the fall-back to
\* sample_photos when the search raises or finds nothing.
ApiStartRun ==
    /\ scraper = "api"
    /\ ~InRun
    /\ run < MaxRuns
    /\ \E n \in 0..MaxDoc, searched \in {"ok", "fail"}, doc \in Docs :
          LET found == IF searched = "ok" THEN Prefix(Dedup(doc, {}), n)
                                          ELSE Prefix(sample_photos, n)
              todo == IF found = <<>> THEN Prefix(sample_photos, n) ELSE found
          IN  /\ max_photos' = n
              /\ photos' = todo
              /\ Construct(todo, <<>>, "item")
    /\ net' = [i \in AllIds |-> Unasked]
    /\ replay' = FALSE

\* FlickrHTMLScraper.__init__ and the head of scrape().
HtmlStartRun ==
    /\ scraper = "html"
    /\ ~InRun
    /\ run < MaxRuns
    /\ \E n \in 0..MaxDoc, doc \in Docs :
          /\ max_photos' = n
          /\ photos' = Prefix(Dedup(doc, {}), n)
          /\ Construct(photos', <<>>, "item")
    /\ net' = [i \in AllIds |-> Unasked]
    /\ replay' = FALSE

\* A run of FlickrAPIScraper or FlickrHTMLScraper on the listing of the run
\* before, the network answering as it did then.
AttrRepeatRun ==
    /\ scraper \in {"api", "html"}
    /\ pc = "done"
    /\ run >= 1
    /\ run <= MaxRuns
    /\ Construct(photos, <<>>, "item")
    /\ replay' = TRUE
    /\ UNCHANGED <<photos, net, max_photos>>

\* One pass of FlickrAPIScraper.scrape()'s loop body: get_photo_info_direct,
\* then download_photo.
ApiItem ==
    /\ scraper = "api"
    /\ pc = "item"
    /\ IF CapReached
          THEN /\ pc' = "finish"
               /\ UNCHANGED <<idx, net, files, metadata, photos_downloaded, reqs, outcome>>
          ELSE \E info \in PageAnswers(net[cur.id].meta) :
               \E links \in (IF net[cur.id].meta = "unset" THEN ApiLinkSets
                                                           ELSE {net[cur.id].links}) :
               LET name == Filename(cur.id, cur.username)
                   first == IF "download" \in links THEN "download" ELSE "display"
                   given == IF first = "download" THEN net[cur.id].dl ELSE net[cur.id].im
               IN  /\ Pause(info = "ok")
                   /\ IF info = "fail"
                         THEN \* photo_info is None
                              /\ net' = [net EXCEPT ![cur.id].meta = info]
                              /\ reqs' = Append(reqs, Logged("meta"))
                              /\ outcome' = "failed"
                              /\ Counted(FALSE)
                              /\ UNCHANGED <<files, metadata>>
                         ELSE IF "display" \notin links
                         THEN \* no image_url
                              /\ net' = [net EXCEPT ![cur.id].meta = info,
                                                    ![cur.id].links = links]
                              /\ reqs' = Append(reqs, Logged("meta"))
                              /\ outcome' = "failed"
                              /\ Counted(FALSE)
                              /\ UNCHANGED <<files, metadata>>
                         ELSE IF exists(files, name)
                         THEN \* already downloaded
                              /\ net' = [net EXCEPT ![cur.id].meta = info,
                                                    ![cur.id].links = links]
                              /\ reqs' = Append(reqs, Logged("meta"))
                              /\ outcome' = "skipped"
                              /\ Counted(TRUE)
                              /\ UNCHANGED <<files, metadata>>
                         ELSE \E a1 \in UrlAnswers(given) :
                              \E a2 \in (IF first = "display" THEN {a1}
                                         ELSE UrlAnswers(net[cur.id].im)) :
                              \E stored \in BOOLEAN :
                              LET retried == login_redirect(a1, links)
                                  last == IF retried THEN a2 ELSE a1
                                  asked == <<Logged("meta"), Logged(first)>>
                                              \o (IF retried THEN <<Logged("display")>>
                                                             ELSE <<>>)
                              IN  /\ net' = [net EXCEPT
                                               ![cur.id].meta = info,
                                               ![cur.id].links = links,
                                               ![cur.id].dl =
                                                   IF first = "download" THEN a1 ELSE @,
                                               ![cur.id].im =
                                                   IF first = "display" THEN a1
                                                   ELSE IF retried THEN a2 ELSE @]
                                  /\ reqs' = reqs \o asked
                                  /\ IF last = "fail"
                                        THEN /\ outcome' = "failed"
                                             /\ Counted(FALSE)
                                             /\ UNCHANGED <<files, metadata>>
                                        ELSE IF ~stored
                                        THEN \* open(filepath, 'wb') or f.write raises
                                             /\ files' = WriteFile(files, name, 0)
                                             /\ outcome' = "unsaved"
                                             /\ Counted(FALSE)
                                             /\ UNCHANGED metadata
                                        ELSE \E size \in 1..MaxSize :
                                             /\ files' = WriteFile(files, name, size)
                                             /\ metadata' = Append(metadata,
                                                   AttributionRecord(cur, name, run))
                                             /\ outcome' = "fresh"
                                             /\ Counted(TRUE)
    /\ faulted' = (faulted \/ outcome' = "unsaved")
    /\ UNCHANGED <<page, stats, carried, call, fetches, scraper, max_photos, run, photos, metaFile, failedFile,
                   failed_downloads, photos_skipped, startFailed, startFile,
                   durable, replay>>

\* One pass of FlickrHTMLScraper.scrape()'s loop body:
\* download_photo_from_sizes, then the pause.
HtmlItem ==
    /\ scraper = "html"
    /\ pc = "item"
    /\ IF CapReached
          THEN /\ pc' = "finish"
               /\ UNCHANGED <<idx, net, files, metadata, photos_downloaded, reqs, outcome>>
          ELSE \E sizes \in PageAnswers(net[cur.id].sizes) :
               \E links \in (IF net[cur.id].sizes = "unset" THEN HtmlLinkSets
                                                            ELSE {net[cur.id].links}) :
               \E orig \in (IF net[cur.id].orig = "unset" THEN {"img", "none", "fail"}
                                                          ELSE {net[cur.id].orig}) :
               \E body \in ImageAnswers(net[cur.id].img) :
               LET name == HtmlFilename(cur.id, cur.username)
                   \* Method 3 runs when methods 1 and 2 found nothing.
                   viaOrig == sizes = "ok" /\ links = {"original"}
                   final == IF viaOrig
                               THEN (IF orig = "img" THEN "display" ELSE "none")
                               ELSE FinalUrl(links)
                   raised == sizes = "fail" \/ (viaOrig /\ orig = "fail")
                   skip == ~raised /\ final # "none" /\ exists(files, name)
                   fetch == ~raised /\ final # "none" /\ ~exists(files, name)
                   asked == HtmlAsked(viaOrig, final, fetch)
               IN  /\ Pause(TRUE)
                   /\ net' = [net EXCEPT
                                ![cur.id].sizes = sizes,
                                ![cur.id].links = IF sizes = "ok" THEN links ELSE @,
                                ![cur.id].orig = IF viaOrig THEN orig ELSE @,
                                ![cur.id].img = IF fetch THEN body ELSE @]
                   /\ reqs' = reqs \o asked
                   /\ IF skip
                         THEN /\ outcome' = "skipped"
                              /\ Counted(TRUE)
                              /\ UNCHANGED <<files, metadata>>
                         ELSE IF fetch /\ body > 0
                         THEN /\ files' = WriteFile(files, name, body)
                              /\ metadata' = Append(metadata,
                                                    AttributionRecord(cur, name, run))
                              /\ outcome' = "fresh"
                              /\ Counted(TRUE)
                         ELSE /\ outcome' = "failed"
                              /\ Counted(FALSE)
                              /\ UNCHANGED <<files, metadata>>
    /\ UNCHANGED <<page, stats, carried, call, fetches, scraper, max_photos, run, photos, metaFile, failedFile,
                   failed_downloads, photos_skipped, startFailed, startFile,
                   durable, faulted, replay>>

\* scrape() after the loop: json.dump(self.attribution_data) into
\* attribution.json.
AttrFinish ==
    /\ scraper \in {"api", "html"}
    /\ pc = "finish"
    /\ metaFile' = JsonFile(metadata)
    /\ durable' = metadata
    /\ pc' = "done"
    /\ UNCHANGED <<page, stats, carried, call, fetches, scraper, max_photos, run, photos, idx, net, files, failedFile,
                   metadata, failed_downloads, photos_downloaded, photos_skipped,
                   reqs, outcome, startFailed, startFile, faulted, replay>>

Next ==
    \/ StartRun
    \/ RepeatRun
    \/ GetMetadata
    \/ SizesPageFails
    \/ LocateAsset
    \/ FetchImage
    \/ WriteImage
    \/ WriteImageFails
    \/ AppendRecord
    \/ DumpLedger
    \/ DumpLedgerFails
    \/ Interrupt
    \/ NextItem
    \/ Finish
    \/ ApiStartRun
    \/ HtmlStartRun
    \/ AttrRepeatRun
    \/ ApiItem
    \/ HtmlItem
    \/ AttrFinish

Spec == Init /\ [][Next]_vars

\* ------------------------------------ one run on a three-candidate listing
\* The listing documents that name three distinct photos, once each.
ListingsOfThree ==
    {doc \in [1..3 -> Users \X AllIds] : {doc[i][2] : i \in 1..3} = AllIds}

\* EnhancedFlickrScraper on an empty output directory.
EndToEndInit == Init /\ scraper = "enhanced"

\* __init__ and the head of scrape() for a listing of three candidates,
\* max_photos None.
StartRunOfThree ==
    /\ scraper = "enhanced"
    /\ pc = "idle"
    /\ run = 0
    /\ \E doc \in ListingsOfThree :
          /\ photos' = extract_photos_from_html(doc, 0)
          /\ Construct(photos', Load(metaFile), "meta")
    /\ max_photos' = 0
    /\ net' = [i \in AllIds |-> Unasked]
    /\ replay' = FALSE

EndToEndNext ==
    \/ StartRunOfThree
    \/ GetMetadata
    \/ SizesPageFails
    \/ LocateAsset
    \/ FetchImage
    \/ WriteImage
    \/ WriteImageFails
    \/ AppendRecord
    \/ DumpLedger
    \/ DumpLedgerFails
    \/ NextItem
    \/ Finish

EndToEndSpec == EndToEndInit /\ [][EndToEndNext]_vars

\* ---------------------------------------------- functions on their own
\* Listing documents of up to MaxListing matches.
Listings == UNION {[1..n -> Matches] : n \in 0..MaxListing}

\* What each class returns for a listing document and max_photos = n:
\* EnhancedFlickrScraper.extract_photos_from_html (all when n is falsy),
\* FlickrHTMLScraper.extract_photos_from_html (photos[:n]) and the search
\* branch of FlickrAPIScraper.search_and_extract_ids (unique_photos[:n]).
Lister(class, doc, n) ==
    IF class = "enhanced" THEN extract_photos_from_html(doc, n)
    ELSE Prefix(Dedup(doc, {}), n)

\* The candidate lister of the constructed class is called on a document.
CallLister ==
    /\ call.fn = "none"
    /\ \E doc \in Listings, n \in 0..MaxListing :
          call' = [fn |-> "lister",
                   arg |-> [doc |-> doc, n |-> n],
                   out |-> Lister(scraper, doc, n)]
    /\ UNCHANGED <<page, stats, carried, fetches, scraper, max_photos, run, pc, photos, idx,
                   net, files, metaFile,
                   failedFile, metadata, failed_downloads, photos_downloaded,
                   photos_skipped, reqs, outcome, startFailed, startFile, durable,
                   faulted, replay>>

\* FlickrScraper.licenses, in the order of the dict, as character sequences.
licenses ==
    <<<<"C", "C", " ", "B", "Y", " ", "2", ".", "0">>,
      <<"C", "C", " ", "B", "Y", "-", "S", "A", " ", "2", ".", "0">>,
      <<"C", "C", "0", " ", "1", ".", "0">>,
      <<"P", "u", "b", "l", "i", "c", " ", "D", "o", "m", "a", "i", "n", " ", "M", "a", "r", "k">>,
      <<"C", "C", " ", "B", "Y", " ", "4", ".", "0">>,
      <<"C", "C", " ", "B", "Y", "-", "S", "A", " ", "4", ".", "0">>>>

\* Pieces of license text: the labels, a label written without spaces, and
\* other words; a license text is up to MaxPieces pieces in a row.
TextPieces ==
    Range(licenses) \cup {<<"C", "C", "B", "Y", "-", "S", "A", "4", ".", "0">>,
                          <<" ", "/", " ">>,
                          <<"S", "o", "m", "e", " ", "r", "i", "g", "h", "t", "s", " ", "r", "e", "s", "e", "r", "v", "e", "d">>}
RECURSIVE Flatten(_)
Flatten(ps) == IF ps = <<>> THEN <<>> ELSE Head(ps) \o Flatten(Tail(ps))
LicenseTexts == {Flatten(ps) : ps \in UNION {[1..n -> TextPieces] : n \in 0..MaxPieces}}

\* value in license_text
Contains(text, value) ==
    \E i \in 0..(Len(text) - Len(value)) : SubSeq(text, i + 1, i + Len(value)) = value

\* str.replace(' ', '')
Unspaced(text) == SelectSeq(text, LAMBDA c : c # " ")

\* get_photo_details: the first entry of the table, in its order, that is
\* in the text as written or with the spaces of both removed; None (<<>>)
\* when there is none.
license_info(license_text) ==
    LET hits == {k \in DOMAIN licenses :
                    \/ Contains(license_text, licenses[k])
                    \/ Contains(Unspaced(license_text), Unspaced(licenses[k]))}
    IN  IF hits = {} THEN <<>>
        ELSE licenses[CHOOSE k \in hits : \A j \in hits : k <= j]

\* get_photo_details is given a page whose license link reads text.
CallLicense ==
    /\ call.fn = "none"
    /\ \E text \in LicenseTexts :
          call' = [fn |-> "license", arg |-> text, out |-> license_info(text)]
    /\ UNCHANGED <<page, stats, carried, fetches, scraper, max_photos, run, pc, photos, idx,
                   net, files, metaFile,
                   failedFile, metadata, failed_downloads, photos_downloaded,
                   photos_skipped, reqs, outcome, startFailed, startFile, durable,
                   faulted, replay>>

\* --------------------------------------------------------- size upgrade
\* [a-z]
Lower ==
    {"a","b","c","d","e","f","g","h","i","j","k","l","m","n","o","p","q","r",
     "s","t","u","v","w","x","y","z"}

Jpg == <<".", "j", "p", "g">>
Png == <<".", "p", "n", "g">>

\* Pieces of image URLs, all of URL characters: a scheme, path characters,
\* size letters, an upper-case letter, extensions with and without the dot.
UrlPieces ==
    {<<"h", "t", "t", "p">>, <<"/">>, <<"1">>, <<"_">>, <<"n">>, <<"b">>, <<"N">>,
     Jpg, Png, <<"j", "p", "g">>}
ImageUrls == {Flatten(ps) : ps \in UNION {[1..n -> UrlPieces] : n \in 0..MaxUrlPieces}}

\* str.endswith / str.startswith
EndsWith(text, tail) ==
    Len(text) >= Len(tail) /\ SubSeq(text, Len(text) - Len(tail) + 1, Len(text)) = tail
StartsWith(text, head) ==
    Len(text) >= Len(head) /\ SubSeq(text, 1, Len(head)) = head

\* The extensions the size pattern of a class allows: r'_[a-z]\.jpg$' in
\* get_photo_info_direct, r'_[a-z]\.(jpg|png)$' in get_photo_details.
SizeExts(class) == IF class = "api" THEN {Jpg} ELSE {Jpg, Png}

\* r'_[a-z]' + ext + '$' matches img_url.
SizeMatch(url, ext) ==
    /\ EndsWith(url, ext)
    /\ Len(url) >= Len(ext) + 2
    /\ url[Len(url) - Len(ext)] \in Lower
    /\ url[Len(url) - Len(ext) - 1] = "_"

\* A rewrite that takes any URL with the extension as one with a size token.
size_upgrade_any(class, url) ==
    IF \E ext \in SizeExts(class) : EndsWith(url, ext) /\ Len(url) >= Len(ext) + 2
       THEN LET ext == CHOOSE e \in SizeExts(class) : EndsWith(url, e)
            IN  SubSeq(url, 1, Len(url) - Len(ext) - 2) \o <<"_", "b">> \o ext
       ELSE url

\* re.sub(r'_[a-z]\.jpg$', '_b.jpg', img_url) and
\* re.sub(r'_[a-z]\.(jpg|png)$', '_b.\\1', img_url)
size_upgrade(class, url) ==
    IF \E ext \in SizeExts(class) : SizeMatch(url, ext)
       THEN LET ext == CHOOSE e \in SizeExts(class) : SizeMatch(url, e)
            IN  SubSeq(url, 1, Len(url) - Len(ext) - 2) \o <<"_", "b">> \o ext
       ELSE url

\* get_photo_details: if not img_url.startswith('http'): 'https:' + img_url
with_scheme(class, url) ==
    IF class = "flickr" /\ ~StartsWith(url, <<"h", "t", "t", "p">>)
       THEN <<"h", "t", "t", "p", "s", ":">> \o url
       ELSE url

\* The page shows the image URL url: the rewrite, the rewrite of its result,
\* and the image_url the method returns.
CallUpgrade ==
    /\ call.fn = "none"
    /\ \E class \in {"api", "flickr"}, url \in ImageUrls \ {<<>>} :
          call' = [fn |-> "upgrade",
                   arg |-> [class |-> class, url |-> url],
                   out |-> [once |-> size_upgrade(class, url),
                            twice |-> size_upgrade(class, size_upgrade(class, url)),
                            image_url |-> with_scheme(class, size_upgrade(class, url))]]
    /\ UNCHANGED <<page, stats, carried, fetches, scraper, max_photos, run, pc, photos, idx,
                   net, files, metaFile,
                   failedFile, metadata, failed_downloads, photos_downloaded,
                   photos_skipped, reqs, outcome, startFailed, startFile, durable,
                   faulted, replay>>

\* -------------------------------------------------------- title cascade
\* The text of an h1.photo-title element, or the content of an og:title
\* meta tag: letters, blanks and the '|' that precedes the site's name.
TitleTexts == UNION {[1..n -> {"t", " ", "|"}] : n \in 0..MaxTitle}

\* What soup.find gives for an element: None, or the element with its text
\* (for a meta tag its content attribute, '' when it has none).
Elements == {[found |-> FALSE, text |-> <<>>]} \cup
            {[found |-> TRUE, text |-> t] : t \in TitleTexts}

\* str.strip() for blanks
RECURSIVE lstrip(_)
lstrip(text) == IF text # <<>> /\ Head(text) = " " THEN lstrip(Tail(text)) ELSE text
RECURSIVE rstrip(_)
rstrip(text) ==
    IF text # <<>> /\ text[Len(text)] = " "
       THEN rstrip(SubSeq(text, 1, Len(text) - 1))
       ELSE text
strip(text) == rstrip(lstrip(text))

\* text.split('|')[0]
RECURSIVE split_first(_)
split_first(text) ==
    IF text = <<>> \/ Head(text) = "|" THEN <<>>
    ELSE <<Head(text)>> \o split_first(Tail(text))

\* A title is a text of the page or a name the code makes up.
Text(t) == [kind |-> "text", text |-> t]
MadeUp(kind) == [kind |-> kind, text |-> <<>>]

\* The title's placeholders: metadata['title'] = title or f"Photo_{photo_id}"
\* in get_photo_metadata, whose title starts as "Untitled";
\* 'title': title or f'Untitled_{photo_id}' in get_photo_details, whose
\* title starts as None.
Placeholder(class, found) ==
    IF class = "enhanced"
       THEN (IF found THEN MadeUp("Photo_id") ELSE MadeUp("Untitled"))
       ELSE MadeUp("Untitled_id")

\* get_photo_metadata / get_photo_details: the h1.photo-title element when
\* the page has one, the og:title meta tag only when it has none.
title_of(class, h1, og) ==
    LET found == h1.found \/ og.found
        title == IF h1.found THEN strip(h1.text)
                 ELSE IF og.found THEN strip(split_first(og.text))
                 ELSE <<>>
    IN  IF title # <<>> THEN Text(title) ELSE Placeholder(class, found)

\* The metadata resolver is given a photo page with these two elements.
CallTitle ==
    /\ call.fn = "none"
    /\ \E class \in {"enhanced", "flickr"}, h1 \in Elements, og \in Elements :
          call' = [fn |-> "title",
                   arg |-> [class |-> class, h1 |-> h1, og |-> og],
                   out |-> title_of(class, h1, og)]
    /\ UNCHANGED <<page, stats, carried, fetches, scraper, max_photos, run, pc, photos, idx,
                   net, files, metaFile,
                   failedFile, metadata, failed_downloads, photos_downloaded,
                   photos_skipped, reqs, outcome, startFailed, startFile, durable,
                   faulted, replay>>

FnNext ==
    \/ CallLister
    \/ CallLicense
    \/ CallUpgrade
    \/ CallTitle

FnSpec == Init /\ [][FnNext]_vars

\* --------------------------------------- FlickrScraper and GeographScraper
PagedScrapers == {"flickr", "geograph"}

\* FlickrScraper.scrape: max_pages = 10
max_pages == 10

\* The photo ids a listing page yields, in page order; search_photos and
\* get_photo_urls_from_recent_page append every link they find.
PageLinks == UNION {[1..n -> PhotoIds] : n \in 0..MaxDoc}
Candidates(ids) == [i \in DOMAIN ids |-> [id |-> ids[i], username |-> <<>>]]

\* The owner names a photo page may show.
PageOwners == {<<"a">>, <<"b", " ", ".">>}

\* FlickrScraper: f"flickr_{photo_id}_{photographer.replace(' ', '_')}.{ext}"
FlickrFilename(photo_id, photographer, ext) ==
    <<"flickr", photo_id, Replace(photographer, " ", "_"), ext>>

\* GeographScraper: f"geograph_{photo_id}.jpg" under gps_dir or no_gps_dir
GeographFilename(photo_id, dir) == <<"geograph", photo_id, <<>>, "jpg", dir>>

\* A candidate is handed to get_photo_details / download_and_classify_photo.
Carry(id) == carried' = [carried EXCEPT ![id] = IF @ < 2 THEN @ + 1 ELSE 2]

PagedInit ==
    /\ scraper \in PagedScrapers
    /\ max_photos = 0
    /\ run = 0
    /\ pc = "idle"
    /\ photos = <<>>
    /\ idx = 0
    /\ net = [i \in AllIds |-> Unasked]
    /\ files = <<>>
    /\ metaFile = AbsentFile
    /\ failedFile = [st |-> "absent", ids |-> <<>>]
    /\ metadata = <<>>
    /\ failed_downloads = <<>>
    /\ photos_downloaded = 0
    /\ photos_skipped = 0
    /\ reqs = <<>>
    /\ outcome = "none"
    /\ startFailed = [st |-> "absent", ids |-> <<>>]
    /\ startFile = AbsentFile
    /\ durable = <<>>
    /\ faulted = FALSE
    /\ replay = FALSE
    /\ call = [fn |-> "none", arg |-> <<>>, out |-> <<>>]
    /\ page = 0
    /\ stats = NoStats
    /\ carried = [i \in AllIds |-> 0]
    /\ fetches = 0

\* time.sleep(2) between items, time.sleep(3) between listing pages.
item_delay == 2
page_delay == 3

\* The paged scrapers' log: the requests and the pauses since the last page
\* turn, in order.  A request has secs = 0.
Event(id, kind, secs) == [id |-> id, kind |-> kind, secs |-> secs]

\* What a photo page has given for the candidate in hand: whether the page
\* came, and the links found on it.
Answered(id, details, links) ==
    [i \in AllIds |-> IF i = id THEN [Unasked EXCEPT !.meta = details, !.links = links]
                                ELSE Unasked]

\* __init__ and the head of scrape(): photos_downloaded = 0, page = 1.
PagedStartRun ==
    /\ scraper \in PagedScrapers
    /\ ~InRun
    /\ run < MaxPagedRuns
    /\ \E n \in 0..MaxDoc : max_photos' = n
    /\ run' = run + 1
    /\ metadata' = <<>>
    /\ stats' = NoStats
    /\ fetches' = 0
    /\ photos_downloaded' = 0
    /\ page' = 1
    /\ carried' = [i \in AllIds |-> 0]
    /\ photos' = <<>>
    /\ idx' = 0
    /\ outcome' = "none"
    /\ startFile' = metaFile
    /\ faulted' = FALSE
    /\ reqs' = <<>>
    /\ net' = [i \in AllIds |-> Unasked]
    /\ pc' = "search"
    /\ UNCHANGED <<scraper, files, metaFile, failedFile, failed_downloads,
                   photos_skipped, startFailed, durable, replay, call>>

\* The head of the while loop and the listing request: search_photos(page)
\* / get_photo_urls_from_recent_page(page); a request that raises yields [].
SearchPage ==
    /\ scraper \in PagedScrapers
    /\ pc = "search"
    /\ IF photos_downloaded < max_photos /\ (scraper = "flickr" => page <= max_pages)
          THEN /\ reqs' = Append(reqs, Event(0, "listing", 0))
               /\ \E ids \in PageLinks :
                     IF ids = <<>>
                        THEN pc' = "finish" /\ UNCHANGED <<photos, idx>>
                        ELSE pc' = "item" /\ photos' = Candidates(ids) /\ idx' = 1
          ELSE pc' = "finish" /\ UNCHANGED <<photos, idx, reqs>>
    /\ UNCHANGED <<page, stats, carried, call, fetches, scraper, max_photos, run, net,
                   files, metaFile, failedFile, metadata, failed_downloads,
                   photos_downloaded, photos_skipped, outcome, startFailed,
                   startFile, durable, faulted, replay>>

\* One pass of FlickrScraper.scrape()'s for loop: get_photo_details, then
\* download_photo.  The photo page may carry a download link (found in the
\* page or built from its secret) and the displayed image; download_photo
\* reads image_url only.
FlickrItem ==
    /\ scraper = "flickr"
    /\ pc = "item"
    /\ IF CapReached
          THEN /\ pc' = "turn"
               /\ UNCHANGED <<idx, files, metadata, photos_downloaded, outcome,
                              carried, net, reqs>>
          ELSE \E details \in {"ok", "fail"}, owner \in PageOwners,
                  links \in SUBSET LinkKinds, ext \in {"jpg", "png"},
                  body \in 0..MaxSize :
               LET name == FlickrFilename(cur.id, owner, ext)
                   located == details = "ok" /\ "display" \in links
                   fetch == located /\ ~exists(files, name)
               IN  /\ Carry(cur.id)
                   /\ Pause(details = "ok")
                   /\ net' = Answered(cur.id, details,
                                      IF details = "ok" THEN links ELSE {})
                   /\ reqs' = reqs \o <<Event(cur.id, "meta", 0)>>
                                   \o (IF fetch THEN <<Event(cur.id, "display", 0)>>
                                                ELSE <<>>)
                   /\ IF ~located
                         THEN /\ outcome' = "failed"
                              /\ Counted(FALSE)
                              /\ UNCHANGED <<files, metadata>>
                         ELSE IF exists(files, name)
                         THEN /\ outcome' = "skipped"
                              /\ Counted(TRUE)
                              /\ UNCHANGED <<files, metadata>>
                         ELSE IF body = 0
                         THEN /\ outcome' = "failed"
                              /\ Counted(FALSE)
                              /\ UNCHANGED <<files, metadata>>
                         ELSE /\ files' = WriteFile(files, name, body)
                              /\ metadata' = Append(metadata,
                                                    AttributionRecord(cur, name, run))
                              /\ outcome' = "fresh"
                              /\ Counted(TRUE)
    /\ UNCHANGED <<page, stats, call, fetches, scraper, max_photos, run, photos,
                   metaFile, failedFile, failed_downloads, photos_skipped,
                   startFailed, startFile, durable, faulted, replay>>

\* One pass of GeographScraper.scrape()'s for loop:
\* download_and_classify_photo.  A run meets at most MaxFailures failed
\* image requests or writes.
GeographItem ==
    /\ scraper = "geograph"
    /\ pc = "item"
    /\ IF CapReached
          THEN /\ pc' = "turn"
               /\ UNCHANGED <<idx, files, metadata, photos_downloaded, outcome,
                              carried, stats, faulted, fetches, reqs>>
          ELSE \E found \in BOOLEAN, body \in 0..MaxSize, gps \in BOOLEAN,
                  stored \in BOOLEAN :
               LET dir == IF gps THEN "photos_with_GPS" ELSE "photos_without_GPS"
                   name == GeographFilename(cur.id, dir)
                   classed == [stats EXCEPT
                                 !.with_gps = IF gps THEN @ + 1 ELSE @,
                                 !.without_gps = IF gps THEN @ ELSE @ + 1]
               IN  /\ (found /\ (body = 0 \/ ~stored)) => stats.failed < MaxFailures
                   /\ Carry(cur.id)
                   /\ Pause(TRUE)
                   /\ fetches' = IF found THEN fetches + 1 ELSE fetches
                   /\ reqs' = IF found THEN Append(reqs, Event(cur.id, "image", 0))
                                       ELSE reqs
                   /\ IF ~found
                         THEN \* get_image_url_from_thumbnail returned None
                              /\ outcome' = "failed"
                              /\ Counted(FALSE)
                              /\ UNCHANGED <<files, metadata, stats, faulted>>
                         ELSE IF body = 0
                         THEN /\ outcome' = "failed"
                              /\ stats' = [stats EXCEPT !.failed = @ + 1]
                              /\ Counted(FALSE)
                              /\ UNCHANGED <<files, metadata, faulted>>
                         ELSE IF ~stored
                         THEN \* open(filepath, 'wb') or f.write raises
                              /\ outcome' = "unsaved"
                              /\ stats' = [classed EXCEPT !.failed = @ + 1]
                              /\ files' = WriteFile(files, name, 0)
                              /\ faulted' = TRUE
                              /\ Counted(FALSE)
                              /\ UNCHANGED metadata
                         ELSE /\ files' = WriteFile(files, name, body)
                              /\ metadata' = Append(metadata,
                                                    AttributionRecord(cur, name, run))
                              /\ stats' = [classed EXCEPT !.total_downloaded = @ + 1]
                              /\ outcome' = "fresh"
                              /\ Counted(TRUE)
                              /\ UNCHANGED faulted
    /\ UNCHANGED <<page, call, scraper, max_photos, run, photos, net, metaFile,
                   failedFile, failed_downloads, photos_skipped, startFailed,
                   startFile, durable, replay>>

\* The end of the for loop's body: time.sleep(2) where the code reaches it,
\* then the next link of the page, or the end of the page.
PagedNextItem ==
    /\ scraper \in PagedScrapers
    /\ pc \in {"sleep", "next"}
    /\ reqs' = IF pc = "sleep" THEN Append(reqs, Event(0, "pause", item_delay))
                               ELSE reqs
    /\ IF idx = Len(photos)
          THEN pc' = "turn" /\ idx' = idx
          ELSE pc' = "item" /\ idx' = idx + 1
    /\ UNCHANGED <<page, stats, carried, call, fetches, scraper, max_photos, run,
                   photos, net, files, metaFile, failedFile, metadata,
                   failed_downloads, photos_downloaded, photos_skipped, outcome,
                   startFailed, startFile, durable, faulted, replay>>

\* page += 1; time.sleep(3).  The log starts again with the pause.
\* GeographScraper reads page only to build the listing URL, whose answer is
\* the network's: its page number is kept up to MaxPages and stands there.
TurnPage ==
    /\ scraper \in PagedScrapers
    /\ pc = "turn"
    /\ page' = IF scraper = "geograph" /\ page = MaxPages THEN page ELSE page + 1
    /\ reqs' = <<Event(0, "turn", page_delay)>>
    /\ pc' = "search"
    /\ UNCHANGED <<stats, carried, call, fetches, scraper, max_photos, run, photos,
                   idx, net, files, metaFile, failedFile, metadata,
                   failed_downloads, photos_downloaded, photos_skipped, outcome,
                   startFailed, startFile, durable, faulted, replay>>

\* scrape() after the loop: json.dump of the records into attribution.json
\* / metadata.json.
PagedFinish ==
    /\ scraper \in PagedScrapers
    /\ pc = "finish"
    /\ metaFile' = JsonFile(metadata)
    /\ durable' = metadata
    /\ pc' = "done"
    /\ UNCHANGED <<page, stats, carried, call, fetches, scraper, max_photos, run,
                   photos, idx, net, files, failedFile, metadata, failed_downloads,
                   photos_downloaded, photos_skipped, reqs, outcome, startFailed,
                   startFile, faulted, replay>>

PagedNext ==
    \/ PagedStartRun
    \/ SearchPage
    \/ FlickrItem
    \/ GeographItem
    \/ PagedNextItem
    \/ TurnPage
    \/ PagedFinish

PagedSpec == PagedInit /\ [][PagedNext]_vars

\* The scheduler runs the process as long as it has a step to take.
PagedLiveSpec == PagedSpec /\ WF_vars(PagedNext)

\* ------------------------------------- the four scrapers that take a cap
\* FlickrAPIScraper, FlickrHTMLScraper, FlickrScraper and GeographScraper
\* read max_photos as a number; each behaviour is the runs of one of them.
CappedScrapers == {"api", "html"} \cup PagedScrapers

CappedInit ==
    \/ Init /\ scraper \in {"api", "html"}
    \/ PagedInit

\* The end of the loop body in FlickrAPIScraper and FlickrHTMLScraper.
AttrNextItem == scraper \in {"api", "html"} /\ NextItem

CappedNext ==
    \/ ApiStartRun
    \/ HtmlStartRun
    \/ AttrRepeatRun
    \/ ApiItem
    \/ HtmlItem
    \/ AttrNextItem
    \/ AttrFinish
    \/ PagedStartRun
    \/ SearchPage
    \/ FlickrItem
    \/ GeographItem
    \/ PagedNextItem
    \/ TurnPage
    \/ PagedFinish

CappedSpec == CappedInit /\ [][CappedNext]_vars

\* ================================================================= claims
\* The ids of the records the current run has appended in memory.
AppendedIds ==
    {metadata[k].photo_id : k \in (Len(Load(startFile)) + 1)..Len(metadata)}

NoDuplicateIds(recs) ==
    \A i, j \in DOMAIN recs : i # j => recs[i].photo_id # recs[j].photo_id

\* Every record names a file of photos/ whose size is the recorded one.
FilesMatch(recs) ==
    \A i \in DOMAIN recs :
        /\ exists(files, recs[i].filename)
        /\ getsize(files, recs[i].filename) = recs[i].file_size

RequestsFor(id) == {k \in DOMAIN reqs : reqs[k].id = id}

\* C1: no photo_id appears in more than one record of the ledger, in
\* self.metadata and in metadata.json, after any number of runs.
LedgerIdsUnique ==
    scraper = "enhanced" => NoDuplicateIds(metadata) /\ NoDuplicateIds(Load(metaFile))

\* C2: every record of the ledger (in memory and on disk) has its file under
\* photos/ with the recorded size, in every state: the bytes are on disk
\* before the record is appended.
LedgerFilesOnDisk ==
    scraper = "enhanced" => FilesMatch(metadata) /\ FilesMatch(Load(metaFile))

\* C2 witness: between two items, after a fresh download whose record is in
\* metadata.json.
LedgerFilesOnDiskWitness ==
    /\ scraper = "enhanced"
    /\ pc = "sleep"
    /\ outcome = "fresh"
    /\ Len(Load(metaFile)) >= 1
    /\ metadata[Len(metadata)].photo_id = cur.id

\* C3: a run that repeats the previous run (same listing, same answers, no
\* storage error in either) ends with metadata.json and
\* failed_downloads.json as that run left them.
RepeatRunIsIdempotent ==
    (scraper = "enhanced" /\ pc = "done" /\ replay /\ ~faulted)
        => (metaFile = startFile /\ failedFile = startFailed)

\* C3 witness: a repeated run over two candidates ends, one skipped as
\* already downloaded and one failed again, both files being in place.
RepeatRunIsIdempotentWitness ==
    /\ scraper = "enhanced"
    /\ pc = "done" /\ replay /\ ~faulted
    /\ photos_downloaded = 1 /\ photos_skipped = 1
    /\ Len(Load(metaFile)) >= 1
    /\ failedFile.st = "ok"

\* C5: no id is both in failed_downloads and in a record the run appended.
FailedAndAppendedDisjoint ==
    scraper = "enhanced" => Range(failed_downloads) \cap AppendedIds = {}

\* C6: no request is issued for a candidate whose id is in the ledger that
\* was loaded at startup.
KnownIdsNotRequested ==
    scraper = "enhanced" =>
    \A k \in DOMAIN reqs : reqs[k].id \notin Ids(Load(startFile))

\* C8: at every item boundary metadata.json holds the in-memory ledger.
LedgerFileFollowsMemory ==
    (scraper = "enhanced" /\ pc \in {"meta", "sleep", "finish"})
        => Load(metaFile) = metadata

\* C9: after an interrupt the ledger file still loads to every record that
\* was in it after the last completed item.
InterruptKeepsLedger ==
    (scraper = "enhanced" /\ pc = "aborted") => IsPrefix(durable, Load(metaFile))

\* C10: when a run ends, the records that were in the ledger file when it
\* started are still there, unmodified, at the head of the file.
LedgerAppendOnly ==
    (scraper = "enhanced" /\ pc \in {"done", "aborted"})
        => IsPrefix(Load(startFile), Load(metaFile))

\* C4: a second run of FlickrAPIScraper / FlickrHTMLScraper on the listing
\* and the output directory of the first leaves attribution.json with the
\* records the first run wrote.
AttributionSurvivesRepeat ==
    (scraper \in {"api", "html"} /\ pc = "done" /\ replay)
        => Load(metaFile) = Load(startFile)

ItemBoundary == {"sleep", "next"}
ImageKinds == {"image", "download", "display"}
ImageRequestsFor(id) == {k \in RequestsFor(id) : reqs[k].kind \in ImageKinds}
PageRequestsFor(id) == RequestsFor(id) \ ImageRequestsFor(id)

\* The current candidate took the branch "file already exists": it is at the
\* end of its loop body, or at the ledger write of its back-filled record.
SkipTaken == pc \in ItemBoundary \cup {"dump"} /\ outcome \in {"skipped", "backfill"}

SkipIssuesNoImageRequest ==
    SkipTaken
        => (ImageRequestsFor(cur.id) = {} /\ PageRequestsFor(cur.id) # {})

SkipCountsAsSuccess ==
    (pc \notin ItemBoundary /\ pc' \in ItemBoundary
        /\ outcome' \in {"skipped", "backfill"})
        => /\ photos_downloaded' = photos_downloaded + 1
           /\ cur.id \notin Range(failed_downloads')

ItemLog == SelectSeq(reqs, LAMBDA r : r.id = cur.id)
Kinds(log) == [i \in DOMAIN log |-> log[i].kind]
ApiAtBoundary == scraper = "api" /\ pc \in ItemBoundary
LastRecordIsCurrent ==
    Len(metadata) >= 1 /\ metadata[Len(metadata)].photo_id = cur.id

\* C11: in FlickrAPIScraper.download_photo, a download URL that ends on the
\* login page, with an image URL available, is followed by exactly one more
\* request, of the image URL, and when that one succeeds (and the file can
\* be written) the image is on disk and its record appended; a first
\* request that does not end on the login page is followed by no other.
AuthWallRecovery ==
    ApiAtBoundary =>
        LET kinds == Kinds(ItemLog)
            primary == IF Len(kinds) >= 2 THEN kinds[2] ELSE "none"
        IN  /\ (primary = "download" /\ net[cur.id].dl = "login")
                => /\ kinds = <<"meta", "download", "display">>
                   /\ (net[cur.id].im = "ok" /\ outcome # "unsaved")
                        => /\ outcome = "fresh"
                           /\ exists(files, curFile)
                           /\ LastRecordIsCurrent
            /\ (primary = "download" /\ net[cur.id].dl # "login")
                => kinds = <<"meta", "download">>
            /\ (primary = "display" /\ net[cur.id].im # "login")
                => kinds = <<"meta", "display">>

\* C11 witness: the download URL ended on the login page, the image URL was
\* requested once and answered, and the candidate's record is the last one.
AuthWallRecoveryWitness ==
    /\ ApiAtBoundary
    /\ Kinds(ItemLog) = <<"meta", "download", "display">>
    /\ net[cur.id].dl = "login"
    /\ net[cur.id].im = "ok"
    /\ outcome = "fresh"
    /\ exists(files, curFile)
    /\ LastRecordIsCurrent

\* C12: when the retry of the image URL ends on the login page too (or the
\* image URL was the only URL and ended there), the candidate ends Failed
\* with no file written and no record appended.
RetryExhaustedFails ==
    ApiAtBoundary =>
        ((Len(ItemLog) = 3 /\ net[cur.id].im = "login")
            => /\ outcome = "failed"
               /\ ~exists(files, curFile)
               /\ cur.id \notin Ids(metadata))

\* What the run's log and the network's answers say of a candidate.
Asked(id, kind) == \E k \in DOMAIN reqs : reqs[k] = [id |-> id, kind |-> kind]
NetFailed(id) ==
    \/ Asked(id, "meta") /\ net[id].meta = "fail"
    \/ Asked(id, "sizes") /\ net[id].sizes = "fail"
    \/ Asked(id, "image") /\ net[id].img = 0
NoAssetUrl(id) ==
    Asked(id, "sizes") /\ net[id].sizes = "ok" /\ FinalUrl(net[id].links) = "none"

\* The number of candidates whose loop body has ended.
Processed == IF pc \in {"sleep", "next", "finish", "done"} THEN idx ELSE idx - 1
EnhancedRunning == scraper = "enhanced" /\ run >= 1 /\ pc \notin {"idle", "aborted"}

\* C13: in EnhancedFlickrScraper a candidate whose metadata page, sizes page
\* or image request fails is recorded in failed_downloads with no record
\* appended, and the loop still reaches every candidate of the listing.
ItemErrorsStayLocal ==
    EnhancedRunning =>
        /\ \A i \in 1..Processed :
              NetFailed(photos[i].id)
                  => /\ photos[i].id \in Range(failed_downloads)
                     /\ photos[i].id \notin AppendedIds
        /\ pc \in {"finish", "done"}
              => /\ idx = Len(photos)
                 /\ \A i \in 1..Len(photos) : Asked(photos[i].id, "meta")

\* C13 witness: the first of two candidates failed on the network, the
\* second was downloaded, and the run has ended.
ItemErrorsStayLocalWitness ==
    /\ scraper = "enhanced"
    /\ pc = "done"
    /\ Len(photos) = 2
    /\ NetFailed(photos[1].id)
    /\ failed_downloads = <<photos[1].id>>
    /\ outcome = "fresh"
    /\ LastRecordIsCurrent

\* C14: after a storage write failure (image file or ledger) no step of a
\* later candidate is taken.
StorageFailureAborts ==
    faulted => pc \notin {"meta", "sizes", "image", "write", "record", "dump", "item"}

FilenamesSanitized ==
    \A name \in DOMAIN files :
        /\ name[1] = "flickr"
        /\ name[2] \in AllIds
        /\ Range(name[3]) \subseteq SafeChars
        /\ name[4] = "jpg"

\* The candidate's pages answered, its image was fetched and stored.
Downloaded(id) ==
    /\ Asked(id, "image")
    /\ net[id].img > 0
    /\ id \in AppendedIds
WithoutUrl == {i \in DOMAIN photos : NoAssetUrl(photos[i].id)}
ThreeWithOneUrlMissing ==
    /\ scraper = "enhanced"
    /\ pc = "done"
    /\ ~faulted
    /\ Len(photos) = 3
    /\ Cardinality(WithoutUrl) = 1
    /\ \A i \in DOMAIN photos \ WithoutUrl : Downloaded(photos[i].id)

\* C19: from an empty output directory, a listing of three candidates of
\* which one has no asset URL and two download ends with two records in
\* the ledger, that one id in failed_downloads.json, and two image files
\* whose sizes are the recorded file_size.
EndToEndThree ==
    ThreeWithOneUrlMissing =>
        /\ Len(metadata) = 2
        /\ Load(metaFile) = metadata
        /\ NoDuplicateIds(metadata)
        /\ failedFile = [st |-> "ok",
                         ids |-> <<photos[CHOOSE i \in WithoutUrl : TRUE].id>>]
        /\ FilesMatch(metadata)
        /\ Cardinality(DOMAIN files) = 2

\* C19 witness: such a run has ended, the candidate without URL in the middle.
EndToEndThreeWitness ==
    /\ ThreeWithOneUrlMissing
    /\ WithoutUrl = {2}
    /\ Len(metadata) = 2
    /\ failedFile.ids = <<photos[2].id>>

\* The positions of a document at which a photo id occurs for the first
\* time, and the k-th of them.
FirstOccurrences(doc) ==
    {i \in DOMAIN doc : \A j \in 1..(i - 1) : doc[j][2] # doc[i][2]}
KthOf(F, k) == CHOOSE i \in F : Cardinality({j \in F : j <= i}) = k
FirstOccurrenceOrder(doc) ==
    [k \in 1..Cardinality(FirstOccurrences(doc)) |->
        [id |-> doc[KthOf(FirstOccurrences(doc), k)][2],
         username |-> doc[KthOf(FirstOccurrences(doc), k)][1]]]

\* C16: the candidate listers return the first occurrence of each id, in
\* document order, with no id twice, cut to a prefix by max_photos.
ListerKeepsFirstOccurrences ==
    call.fn = "lister" =>
        LET whole == FirstOccurrenceOrder(call.arg.doc)
            n == call.arg.n
            all == scraper = "enhanced" /\ n = 0
        IN  /\ IsPrefix(call.out, whole)
            /\ Len(call.out) = IF all \/ n >= Len(whole) THEN Len(whole) ELSE n
            /\ Cardinality({call.out[i].id : i \in DOMAIN call.out}) = Len(call.out)

\* C16 witness: a document that repeats an id under another owner between
\* two ids has been listed and cut to two candidates.
ListerKeepsFirstOccurrencesWitness ==
    /\ call.fn = "lister"
    /\ call.arg.n = 2
    /\ Len(call.arg.doc) = 3
    /\ call.arg.doc[1][2] = call.arg.doc[2][2]
    /\ call.arg.doc[1][1] # call.arg.doc[2][1]
    /\ call.arg.doc[3][2] # call.arg.doc[1][2]
    /\ Len(call.out) = 2
    /\ call.out[1].username = call.arg.doc[1][1]

\* C17: in a run of FlickrScraper or GeographScraper no photo id is handed
\* to the download pipeline more than once.
NoIdCarriedTwice ==
    scraper \in PagedScrapers => \A id \in AllIds : carried[id] <= 1

\* C20: the label get_photo_details returns for a license text is a longest
\* entry of the license table among those that are substrings of the text.
LongestLabelWins ==
    call.fn = "license" =>
        LET found == {k \in DOMAIN licenses : Contains(call.arg, licenses[k])}
        IN  found # {}
              => /\ call.out \in {licenses[k] : k \in found}
                 /\ \A k \in found : Len(licenses[k]) <= Len(call.out)

\* C21: a license text that holds "CC BY-SA 4.0" is normalized to the label
\* 'CC BY-SA 4.0', never to 'CC BY 4.0' or 'CC BY 2.0'.
ShareAlikeFourKept ==
    (call.fn = "license" /\ Contains(call.arg, licenses[6]))
        => /\ call.out = licenses[6]
           /\ call.out \notin {licenses[5], licenses[1]}

\* The URL ends in '_<one lowercase letter>' followed by the extension.
HasSizeToken(url, ext) ==
    /\ Len(url) >= 6
    /\ <<url[Len(url) - 3], url[Len(url) - 2], url[Len(url) - 1], url[Len(url)]>> = ext
    /\ url[Len(url) - 4] \in Lower
    /\ url[Len(url) - 5] = "_"

SemanticTitle == IF call.arg.h1.found THEN strip(call.arg.h1.text) ELSE <<>>
PageTitle == IF call.arg.og.found THEN strip(split_first(call.arg.og.text)) ELSE <<>>

\* C24: the title is the value of the first strategy, in the order semantic
\* h1.photo-title then og:title, that produces a non-empty value; a page
\* without a non-empty semantic title and with a non-empty og:title gets the
\* og:title, not a placeholder.
TitleCascade ==
    call.fn = "title" =>
        /\ SemanticTitle # <<>> => call.out = Text(SemanticTitle)
        /\ (SemanticTitle = <<>> /\ PageTitle # <<>>) => call.out = Text(PageTitle)

\* download_photo_with_metadata has returned True for the current candidate.
ReturnedTrue ==
    /\ scraper = "enhanced"
    /\ pc \in ItemBoundary
    /\ outcome \in {"fresh", "skipped", "backfill"}

\* C26: whenever download_photo_with_metadata returns True for a candidate,
\* the ledger in memory and metadata.json hold a record with its photo_id.
TrueMeansRecorded ==
    ReturnedTrue
        => /\ cur.id \in Ids(metadata)
           /\ metaFile.st = "ok"
           /\ cur.id \in Ids(metaFile.recs)

\* C27: at every item boundary of EnhancedFlickrScraper.scrape,
\* photos_downloaded + photos_skipped is the number of candidates processed
\* so far, failed_downloads is as long as photos_skipped, and no id is in it
\* twice.
CountersAddUp ==
    (EnhancedRunning /\ pc \in ItemBoundary)
        => /\ photos_downloaded + photos_skipped = idx
           /\ Len(failed_downloads) = photos_skipped
           /\ Cardinality(Range(failed_downloads)) = Len(failed_downloads)

\* C27 witness: a run has processed two candidates, one counted as
\* downloaded and one as skipped.
CountersAddUpWitness ==
    /\ EnhancedRunning
    /\ pc \in ItemBoundary
    /\ idx = 2
    /\ photos_downloaded = 1
    /\ photos_skipped = 1
    /\ Len(failed_downloads) = 1

\* C28: in GeographScraper, total_downloaded = with_gps + without_gps = the
\* number of records in self.metadata, and total_downloaded + failed is the
\* number of download_and_classify_photo calls that reached the image
\* request.
GeographCountersAgree ==
    (scraper = "geograph" /\ run >= 1)
        => /\ stats.total_downloaded = stats.with_gps + stats.without_gps
           /\ stats.total_downloaded = Len(metadata)
           /\ stats.total_downloaded + stats.failed = fetches

\* The image requests of the pass in hand of a paged scraper: those logged
\* after the pass's photo-page request.
LastMeta == CHOOSE k \in DOMAIN reqs :
                reqs[k].kind = "meta" /\ \A j \in (k + 1)..Len(reqs) : reqs[j].kind # "meta"
FetchedKinds == {reqs[j].kind : j \in (LastMeta + 1)..Len(reqs)} \cap ImageKinds

\* C23: the asset locator's strategies apply in priority order: when a
\* download link was found the download link is what is fetched, the
\* displayed image is fetched only when no download link was found, and
\* when nothing was found the item fails without a further request.
AssetLocatorPriority ==
    (scraper = "flickr" /\ pc \in ItemBoundary /\ net[cur.id].meta = "ok"
        /\ outcome # "skipped")
        => LET links == net[cur.id].links
           IN  /\ "download" \in links => FetchedKinds = {"download"}
               /\ links = {"display"} => FetchedKinds = {"display"}
               /\ links = {} => (FetchedKinds = {} /\ outcome = "failed")

\* C25: in a run a blocking delay separates any two consecutive network
\* requests, and the delay at a listing-page transition is longer than the
\* delay between items.
DelayBetweenRequests ==
    scraper = "flickr"
        => /\ \A k \in 1..(Len(reqs) - 1) : ~(reqs[k].secs = 0 /\ reqs[k + 1].secs = 0)
           /\ \A j, k \in DOMAIN reqs :
                 (reqs[j].kind = "turn" /\ reqs[k].kind = "pause")
                     => reqs[j].secs > reqs[k].secs

\* The kinds of the detail-page and image requests.
DetailOrImageKinds == {"meta", "sizes", "original", "download", "display", "image"}

\* The step adds a detail-page or image request to the log.
IssuesRequest ==
    \E k \in DOMAIN reqs' :
        /\ reqs'[k].kind \in DetailOrImageKinds
        /\ k > Len(reqs) \/ reqs[k] # reqs'[k]

CountWithinCap ==
    (scraper \in CappedScrapers /\ run >= 1) => photos_downloaded <= max_photos

NoRequestAtCap == IssuesRequest => photos_downloaded < max_photos

\* C29: in every run of FlickrScraper, FlickrAPIScraper, FlickrHTMLScraper
\* and GeographScraper the number of items counted as downloaded never
\* exceeds max_photos, and no detail-page or image request is issued once
\* the count has reached max_photos.
CapIsKept == []CountWithinCap /\ [][NoRequestAtCap]_vars

\* C29 witness: a run has counted max_photos downloads and left the loop
\* over a page with a candidate that was never handed on.
CapIsKeptWitness ==
    /\ scraper \in PagedScrapers
    /\ pc = "turn"
    /\ max_photos >= 1
    /\ photos_downloaded = max_photos
    /\ idx = 2
    /\ carried[cur.id] = 0

\* FlickrScraper is at a listing page only up to page max_pages.
FlickrPagesBounded ==
    scraper = "flickr"
        => /\ page <= max_pages + 1
           /\ pc \in {"item", "sleep", "next", "turn"} => page <= max_pages

\* C30: every run terminates and reaches the final ledger write, whatever
\* the network answers: FlickrScraper requests at most max_pages listing
\* pages, and GeographScraper leaves its page loop even when every listing
\* page returns photos and every download fails.
EveryRunEnds == []FlickrPagesBounded /\ <>(pc = "done")

==========================================================================
